---- MODULE Spec2Model ----
(***************************************************************************)
(* BangerMan: a frame-scoped 2D draw-command recorder (src/bangerman.h).   *)
(*                                                                         *)
(* The header holds two implementations of the same API:                   *)
(*   - the fixed-capacity recorder (lines 231-450): hard cap, overflow     *)
(*     flag, bm_begin_frame records an implicit CLEAR command;             *)
(*   - the dynamic-growth recorder (lines 594-832): realloc on demand, no  *)
(*     overflow flag, no implicit CLEAR.                                   *)
(* The variable impl says which of the two a run is built from; it never   *)
(* changes. Definitions prefixed F_ model the fixed implementation, those  *)
(* prefixed D_ the dynamic one.                                            *)
(*                                                                         *)
(* Floats are modelled by integers: sizes and coordinates by their integer *)
(* value, colour channels in tenths (1.0 is 10).                           *)
(***************************************************************************)
EXTENDS Integers, Sequences, FiniteSets, TLC

VARIABLES
    impl,        \* "fixed" or "dynamic": the implementation compiled in
    ctx,         \* handle -> struct BM_Context (live = FALSE: not allocated)
    g_bm_ctx,    \* the global current context pointer (NULL or a handle)
    trace,       \* history: handle -> emitter calls made on it since its last
                 \*          bm_begin_frame (or since bm_create)
    begun,       \* history: handle -> bm_begin_frame was called on it
    oob,         \* history: a command was stored at an index >= capacity
    sdl,         \* the replayer's calls on the SDL renderer not yet presented
    spilled      \* history: handle -> an earlier frame of it ended with the
                 \*          overflow flag set

vars == <<impl, ctx, g_bm_ctx, trace, begun, oob, sdl, spilled>>

----------------------------------------------------------------------------
(* Bounds of the model *)

\* largest capacity passed to bm_create
MaxCap == 2
\* emitter calls made on one recorder within one frame
MaxCalls == 2

(* Program constants *)

FIXED_DEFAULT_CAPACITY == 1024
DYN_DEFAULT_CAPACITY == 64
DYN_FIRST_CAPACITY == 64
DEFAULT_LOGICAL_W == 320
DEFAULT_LOGICAL_H == 180

NULL == 0
Handles == {1}
Impls == {"fixed", "dynamic"}

----------------------------------------------------------------------------
(* Values *)

bm_color_rgba(r, g, b, a) == [r |-> r, g |-> g, b |-> b, a |-> a]
bm_color_rgb(r, g, b) == bm_color_rgba(r, g, b, 10)

Black == bm_color_rgb(0, 0, 0)
White == bm_color_rgba(10, 10, 10, 10)

\* the colours the setters are called with
Colors == {Black, White}

\* the sizes (width, height) bm_set_logical_size is called with
LogicalSizes == {<<0, 90>>, <<160, -90>>, <<160, 90>>}

\* the geometry the emitters are called with
Rects == { [x |-> 80, y |-> 40, w |-> 50, h |-> 30] }
Lines == { [x0 |-> 0, y0 |-> 0, x1 |-> 319, y1 |-> 179] }
Sprites == { [texture |-> 7, dst_x |-> 1, dst_y |-> 2, dst_w |-> 16, dst_h |-> 16,
              src_x |-> 0, src_y |-> 0, src_w |-> 16, src_h |-> 16] }
DSprites == { [texture |-> 7, x |-> 1, y |-> 2, w |-> 16, h |-> 16] }

\* the capacities bm_create is called with: 0 asks for the default
Hints == 0..MaxCap

\* content of a slot of malloc'ed storage nothing has written yet
Indeterminate == [type |-> "INDETERMINATE", color |-> [indeterminate |-> TRUE],
                  data |-> [indeterminate |-> TRUE]]

\* a struct BM_Context that is not allocated
NoContext == [live |-> FALSE]

NoCmd == -1

----------------------------------------------------------------------------
(* Command storage.                                                        *)
(* c.buf is the address of the array (the C field commands) and c.commands *)
(* its content as far as it is defined and can be read: slot i of the C    *)
(* array is c.commands[i + 1]. Every read of the array, here and in the    *)
(* replayer, stays below command_count, so the slots at and above          *)
(* command_count are kept only until bm_begin_frame resets the count; what *)
(* they hold after that (stale commands of the last frame, or what the     *)
(* allocator left) is c.fresh, content nothing depends on.                 *)

Fresh(c) == c.fresh

Slot(c, i) == IF i + 1 <= Len(c.commands) THEN c.commands[i + 1] ELSE Fresh(c)

\* the array after *(&commands[i]) = s
Store(c, i, s) ==
    LET n == IF i + 1 > Len(c.commands) THEN i + 1 ELSE Len(c.commands)
    IN  [c EXCEPT !.commands = [k \in 1..n |-> IF k = i + 1 THEN s ELSE Slot(c, k - 1)]]

\* the array once command_count is reset: only the slots below it are kept
Reset(c) == [c EXCEPT !.commands = [k \in 1..c.command_count |-> Slot(c, k - 1)],
                      !.fresh = Indeterminate]

\* what bm_get_commands hands out: the first command_count slots
Snapshot(c) == [k \in 1..c.command_count |-> Slot(c, k - 1)]

\* an emitter call as the history keeps it: the emitter, its arguments, the draw
\* colour of the recorder when it was called, and whether the recorder had no room
\* for it (fixed: it was full; dynamic: it was full and realloc failed)
Call(c, type, args, refused) ==
    [type |-> type, color |-> c.current_color, args |-> args, refused |-> refused]

\* the bound of a specification on the emitter calls of one frame: n calls at most
\* are explored on the current recorder
CallAllowed(n) == IF g_bm_ctx = NULL THEN TRUE ELSE Len(trace[g_bm_ctx]) < n

\* history kept by an emitter call on the current recorder
NoteCall(type, args, refused) ==
    trace' = [trace EXCEPT ![g_bm_ctx] = Append(@, Call(ctx[g_bm_ctx], type, args, refused))]

Full(c) == c.command_count >= c.command_capacity

\* history kept when a handler asked recorder c for a slot and got p: the slot, if
\* any, is stored to
NoteStore(c, p) == oob' = (oob \/ (p.cmd # NoCmd /\ p.cmd >= c.command_capacity))

----------------------------------------------------------------------------
(* Fixed-capacity implementation *)

\* mutants of bm__ensure_capacity: the bound off by one either way, and the
\* overflow left unmarked
M_ensure_capacity_strict(c, needed_extra) ==
    LET needed == c.command_count + needed_extra
    IN  IF needed < c.command_capacity
        THEN [ok |-> TRUE, ctx |-> c]
        ELSE [ok |-> FALSE, ctx |-> [c EXCEPT !.overflowed = TRUE]]

M_ensure_capacity_off_by_one(c, needed_extra) ==
    LET needed == c.command_count + needed_extra
    IN  IF needed <= c.command_capacity + 1
        THEN [ok |-> TRUE, ctx |-> c]
        ELSE [ok |-> FALSE, ctx |-> [c EXCEPT !.overflowed = TRUE]]

M_ensure_capacity_silent(c, needed_extra) ==
    LET needed == c.command_count + needed_extra
    IN  IF needed <= c.command_capacity
        THEN [ok |-> TRUE, ctx |-> c]
        ELSE [ok |-> FALSE, ctx |-> c]

F_bm__ensure_capacity(c, needed_extra) ==
    LET needed == c.command_count + needed_extra
    IN  IF needed <= c.command_capacity
        THEN [ok |-> TRUE, ctx |-> c]
        ELSE [ok |-> FALSE, ctx |-> [c EXCEPT !.overflowed = TRUE]]

\* mutants of bm__push_command: &commands[++count], and the newest command
\* overwritten when the recorder is full
M_push_preincrement(c) ==
    LET e == F_bm__ensure_capacity(c, 1)
    IN  IF ~e.ok
        THEN [cmd |-> NoCmd, ctx |-> e.ctx]
        ELSE [cmd |-> e.ctx.command_count + 1,
              ctx |-> [e.ctx EXCEPT !.command_count = @ + 1]]

M_push_overwrite_last(c) ==
    LET e == F_bm__ensure_capacity(c, 1)
    IN  IF ~e.ok
        THEN [cmd |-> e.ctx.command_count - 1, ctx |-> e.ctx]
        ELSE [cmd |-> e.ctx.command_count,
              ctx |-> [e.ctx EXCEPT !.command_count = @ + 1]]

\* cmd is the index of the slot handed out, NoCmd for NULL
F_bm__push_command(c) ==
    LET e == F_bm__ensure_capacity(c, 1)
    IN  IF ~e.ok
        THEN [cmd |-> NoCmd, ctx |-> e.ctx]
        ELSE [cmd |-> e.ctx.command_count,
              ctx |-> [e.ctx EXCEPT !.command_count = @ + 1]]

F_NewContext(command_capacity, addr) ==
    [live |-> TRUE,
     logical_w |-> DEFAULT_LOGICAL_W,
     logical_h |-> DEFAULT_LOGICAL_H,
     clear_color |-> bm_color_rgb(0, 0, 0),
     current_color |-> bm_color_rgba(10, 10, 10, 10),
     buf |-> addr,
     fresh |-> Indeterminate,
     commands |-> <<>>,
     command_count |-> 0,
     command_capacity |-> command_capacity,
     overflowed |-> FALSE]

\* mutant of bm_create: a capacity of 0 or less is taken as it is
M_create_no_default(h, command_capacity) ==
    /\ impl = "fixed"
    /\ ~ctx[h].live
    /\ \/ ctx' = [ctx EXCEPT ![h] = F_NewContext(command_capacity, 1)]
       \/ ctx' = ctx
    /\ UNCHANGED <<impl, sdl, spilled, g_bm_ctx, trace, begun, oob>>

F_bm_create(h, command_capacity) ==
    /\ impl = "fixed"
    /\ ~ctx[h].live
    /\ \/ LET cap == IF command_capacity <= 0 THEN FIXED_DEFAULT_CAPACITY
                     ELSE command_capacity
          IN  ctx' = [ctx EXCEPT ![h] = F_NewContext(cap, 1)]
       \/ ctx' = ctx       \* malloc failed: NULL is returned
    /\ UNCHANGED <<impl, sdl, spilled, g_bm_ctx, trace, begun, oob>>

\* mutant of bm_destroy: the current pointer is left as it is
M_destroy_keeps_current(h) ==
    /\ IF h = NULL THEN TRUE ELSE ctx[h].live
    /\ IF h = NULL
       THEN UNCHANGED <<ctx, g_bm_ctx, trace, begun, spilled>>
       ELSE /\ g_bm_ctx' = g_bm_ctx
            /\ ctx' = [ctx EXCEPT ![h] = NoContext]
            /\ trace' = [trace EXCEPT ![h] = <<>>]
            /\ begun' = [begun EXCEPT ![h] = FALSE]
            /\ spilled' = [spilled EXCEPT ![h] = FALSE]
    /\ UNCHANGED <<impl, sdl, oob>>

bm_destroy(h) ==
    /\ IF h = NULL THEN TRUE ELSE ctx[h].live
    /\ IF h = NULL
       THEN UNCHANGED <<ctx, g_bm_ctx, trace, begun, spilled>>
       ELSE /\ g_bm_ctx' = IF g_bm_ctx = h THEN NULL ELSE g_bm_ctx
            /\ ctx' = [ctx EXCEPT ![h] = NoContext]
            /\ trace' = [trace EXCEPT ![h] = <<>>]
            /\ begun' = [begun EXCEPT ![h] = FALSE]
            /\ spilled' = [spilled EXCEPT ![h] = FALSE]
    /\ UNCHANGED <<impl, sdl, oob>>

bm_make_current(h) ==
    /\ IF h = NULL THEN TRUE ELSE ctx[h].live
    /\ g_bm_ctx' = h
    /\ UNCHANGED <<impl, sdl, spilled, ctx, trace, begun, oob>>

F_bm_set_logical_size(width, height) ==
    /\ impl = "fixed"
    /\ IF g_bm_ctx = NULL THEN ctx' = ctx
       ELSE IF width <= 0 \/ height <= 0 THEN ctx' = ctx
       ELSE ctx' = [ctx EXCEPT ![g_bm_ctx].logical_w = width,
                               ![g_bm_ctx].logical_h = height]
    /\ UNCHANGED <<impl, sdl, spilled, g_bm_ctx, trace, begun, oob>>

\* mutant of bm_set_clear_color: with no current recorder, every recorder is set
M_set_clear_color_no_current(color) ==
    /\ impl = "fixed"
    /\ IF g_bm_ctx = NULL
       THEN ctx' = [h \in DOMAIN ctx |->
                       IF ctx[h].live THEN [ctx[h] EXCEPT !.clear_color = color]
                       ELSE ctx[h]]
       ELSE ctx' = [ctx EXCEPT ![g_bm_ctx].clear_color = color]
    /\ UNCHANGED <<impl, sdl, spilled, g_bm_ctx, trace, begun, oob>>

\* mutant of bm_set_clear_color: the CLEAR already recorded is recoloured too
M_set_clear_color_retroactive(color) ==
    /\ impl = "fixed"
    /\ IF g_bm_ctx = NULL THEN ctx' = ctx
       ELSE ctx' = [ctx EXCEPT ![g_bm_ctx].clear_color = color,
                               ![g_bm_ctx].commands =
                                   [k \in 1..Len(@) |->
                                       IF @[k].type = "CLEAR"
                                       THEN [@[k] EXCEPT !.color = color] ELSE @[k]]]
    /\ UNCHANGED <<impl, sdl, spilled, g_bm_ctx, trace, begun, oob>>

F_bm_set_clear_color(color) ==
    /\ impl = "fixed"
    /\ IF g_bm_ctx = NULL THEN ctx' = ctx
       ELSE ctx' = [ctx EXCEPT ![g_bm_ctx].clear_color = color]
    /\ UNCHANGED <<impl, sdl, spilled, g_bm_ctx, trace, begun, oob>>

\* mutant of bm_set_draw_color: the commands already recorded are recoloured too
M_set_draw_color_retroactive(color) ==
    /\ impl = "fixed"
    /\ IF g_bm_ctx = NULL THEN ctx' = ctx
       ELSE ctx' = [ctx EXCEPT ![g_bm_ctx].current_color = color,
                               ![g_bm_ctx].commands =
                                   [k \in 1..Len(@) |-> [@[k] EXCEPT !.color = color]]]
    /\ UNCHANGED <<impl, sdl, spilled, g_bm_ctx, trace, begun, oob>>

\* mutant of bm_set_draw_color: the draw colour is one global, shared by all
\* recorders
M_set_draw_color_global(color) ==
    /\ impl = "fixed"
    /\ IF g_bm_ctx = NULL THEN ctx' = ctx
       ELSE ctx' = [h \in DOMAIN ctx |->
                       IF ctx[h].live THEN [ctx[h] EXCEPT !.current_color = color]
                       ELSE ctx[h]]
    /\ UNCHANGED <<impl, sdl, spilled, g_bm_ctx, trace, begun, oob>>

F_bm_set_draw_color(color) ==
    /\ impl = "fixed"
    /\ IF g_bm_ctx = NULL THEN ctx' = ctx
       ELSE ctx' = [ctx EXCEPT ![g_bm_ctx].current_color = color]
    /\ UNCHANGED <<impl, sdl, spilled, g_bm_ctx, trace, begun, oob>>

\* history kept by bm_begin_frame on the current recorder
NoteBeginFrame ==
    LET h == g_bm_ctx
    IN  /\ trace' = [trace EXCEPT ![h] = <<>>]
        /\ begun' = [begun EXCEPT ![h] = TRUE]
        /\ spilled' = [spilled EXCEPT ![h] = @ \/ ctx[h].overflowed]

\* mutant of bm_begin_frame: the overflow flag of the last frame is kept
M_begin_frame_keeps_overflow ==
    /\ impl = "fixed"
    /\ IF g_bm_ctx = NULL
       THEN UNCHANGED <<ctx, trace, begun, oob, spilled>>
       ELSE LET c0 == Reset([ctx[g_bm_ctx] EXCEPT !.command_count = 0])
                p == F_bm__push_command(c0)
            IN  /\ ctx' = [ctx EXCEPT ![g_bm_ctx] =
                      IF p.cmd = NoCmd THEN p.ctx
                      ELSE Store(p.ctx, p.cmd,
                                 [Slot(p.ctx, p.cmd) EXCEPT !.type = "CLEAR",
                                                            !.color = p.ctx.clear_color])]
                /\ NoteStore(c0, p)
                /\ NoteBeginFrame
    /\ UNCHANGED <<impl, sdl, g_bm_ctx>>

\* mutant of bm_begin_frame: the command count of the last frame is kept
M_begin_frame_keeps_count ==
    /\ impl = "fixed"
    /\ IF g_bm_ctx = NULL
       THEN UNCHANGED <<ctx, trace, begun, oob, spilled>>
       ELSE LET c0 == Reset([ctx[g_bm_ctx] EXCEPT !.overflowed = FALSE])
                p == F_bm__push_command(c0)
            IN  /\ ctx' = [ctx EXCEPT ![g_bm_ctx] =
                      IF p.cmd = NoCmd THEN p.ctx
                      ELSE Store(p.ctx, p.cmd,
                                 [Slot(p.ctx, p.cmd) EXCEPT !.type = "CLEAR",
                                                            !.color = p.ctx.clear_color])]
                /\ NoteStore(c0, p)
                /\ NoteBeginFrame
    /\ UNCHANGED <<impl, sdl, g_bm_ctx>>

F_bm_begin_frame ==
    /\ impl = "fixed"
    /\ IF g_bm_ctx = NULL
       THEN UNCHANGED <<ctx, trace, begun, oob, spilled>>
       ELSE LET c0 == Reset([ctx[g_bm_ctx] EXCEPT !.command_count = 0, !.overflowed = FALSE])
                p == F_bm__push_command(c0)
            IN  /\ ctx' = [ctx EXCEPT ![g_bm_ctx] =
                      IF p.cmd = NoCmd THEN p.ctx
                      ELSE Store(p.ctx, p.cmd,
                                 [Slot(p.ctx, p.cmd) EXCEPT !.type = "CLEAR",
                                                            !.color = p.ctx.clear_color])]
                /\ NoteStore(c0, p)
                /\ NoteBeginFrame
    /\ UNCHANGED <<impl, sdl, g_bm_ctx>>

\* mutant of bm_end_frame: it ends the recording on the current recorder
M_end_frame_ends_recording ==
    /\ g_bm_ctx' = NULL
    /\ UNCHANGED <<impl, sdl, spilled, ctx, trace, begun, oob>>

bm_end_frame ==
    UNCHANGED vars

\* mutant of the emitters: the command is written to the slot pushed and to
\* the one below it
M_Emit_writes_two_slots(type, data) ==
    LET c == ctx[g_bm_ctx]
        p == F_bm__push_command(c)
        cmd == [Slot(p.ctx, p.cmd) EXCEPT !.type = type,
                                          !.color = p.ctx.current_color,
                                          !.data = data]
    IN  /\ ctx' = [ctx EXCEPT ![g_bm_ctx] =
              IF p.cmd = NoCmd THEN p.ctx
              ELSE IF p.cmd = 0 THEN Store(p.ctx, p.cmd, cmd)
              ELSE Store(Store(p.ctx, p.cmd, cmd), p.cmd - 1, cmd)]
        /\ NoteStore(c, p)
        /\ NoteCall(type, data, Full(c))
        /\ UNCHANGED <<begun, spilled>>

\* an emitter of the fixed implementation: the slot pushed gets type, the
\* current draw colour and data
F_Emit(type, data) ==
    LET c == ctx[g_bm_ctx]
        p == F_bm__push_command(c)
    IN  /\ ctx' = [ctx EXCEPT ![g_bm_ctx] =
              IF p.cmd = NoCmd THEN p.ctx
              ELSE Store(p.ctx, p.cmd,
                         [Slot(p.ctx, p.cmd) EXCEPT !.type = type,
                                                    !.color = p.ctx.current_color,
                                                    !.data = data])]
        /\ NoteStore(c, p)
        /\ NoteCall(type, data, Full(c))
        /\ UNCHANGED <<begun, spilled>>

F_bm_rect_fill(r) ==
    /\ impl = "fixed"
    /\ IF g_bm_ctx = NULL THEN UNCHANGED <<ctx, trace, begun, oob, spilled>>
       ELSE F_Emit("RECT_FILL", r)
    /\ UNCHANGED <<impl, sdl, g_bm_ctx>>

F_bm_rect_outline(r) ==
    /\ impl = "fixed"
    /\ IF g_bm_ctx = NULL THEN UNCHANGED <<ctx, trace, begun, oob, spilled>>
       ELSE F_Emit("RECT_OUTLINE", r)
    /\ UNCHANGED <<impl, sdl, g_bm_ctx>>

F_bm_line(l) ==
    /\ impl = "fixed"
    /\ IF g_bm_ctx = NULL THEN UNCHANGED <<ctx, trace, begun, oob, spilled>>
       ELSE F_Emit("LINE", l)
    /\ UNCHANGED <<impl, sdl, g_bm_ctx>>

F_bm_sprite(s) ==
    /\ impl = "fixed"
    /\ IF g_bm_ctx = NULL THEN UNCHANGED <<ctx, trace, begun, oob, spilled>>
       ELSE F_Emit("SPRITE", s)
    /\ UNCHANGED <<impl, sdl, g_bm_ctx>>

\* the (commands, count) view bm_get_commands writes to its out parameters
View(c) == [commands |-> c.buf, count |-> c.command_count]

\* the caller's variables (commands, count) before a call of bm_get_commands:
\* initialised as the replayer does, or holding an earlier view
CallerOuts == {[commands |-> NULL, count |-> 0], [commands |-> 2, count |-> 5]}

\* mutant of bm_get_commands: with a NULL recorder the outputs are zeroed
M_get_commands_zeroes_on_null(h, out) ==
    IF h = NULL THEN [commands |-> NULL, count |-> 0] ELSE View(ctx[h])

\* the caller's variables after bm_get_commands(h, &out.commands, &out.count)
\* (dynamic: bm_get_commands(h, &out))
bm_get_commands_out(h, out) ==
    IF h = NULL THEN out ELSE View(ctx[h])

\* what the accessors of the fixed implementation return
bm_get_command_capacity_ret(h) == IF h = NULL THEN 0 ELSE ctx[h].command_capacity
bm_get_command_count_ret(h) == IF h = NULL THEN 0 ELSE ctx[h].command_count
bm_has_overflowed_ret(h) == IF h = NULL THEN FALSE ELSE ctx[h].overflowed

\* a consumer calls an accessor on recorder h, or on NULL: nothing is written
\* but the caller's variables
bm_get_commands(h) ==
    /\ IF h = NULL THEN TRUE ELSE ctx[h].live
    /\ UNCHANGED vars

bm_get_command_capacity(h) ==
    /\ impl = "fixed"
    /\ IF h = NULL THEN TRUE ELSE ctx[h].live
    /\ UNCHANGED vars

bm_get_command_count(h) ==
    /\ impl = "fixed"
    /\ IF h = NULL THEN TRUE ELSE ctx[h].live
    /\ UNCHANGED vars

bm_has_overflowed(h) ==
    /\ impl = "fixed"
    /\ IF h = NULL THEN TRUE ELSE ctx[h].live
    /\ UNCHANGED vars

----------------------------------------------------------------------------
(* Dynamic-growth implementation.                                          *)
(* Its struct BM_Context names the fields capacity, count, logical_width,  *)
(* logical_height and draw_color; the model keeps one record shape for both *)
(* implementations and uses the names of the fixed one (command_capacity,  *)
(* command_count, logical_w, logical_h, current_color). It has no overflow *)
(* flag: the field overflowed stays FALSE.                                 *)

\* a BM_Command after memset(cmd, 0, sizeof(*cmd)), and what calloc leaves
ZeroColor == bm_color_rgba(0, 0, 0, 0)
ZeroData == [x |-> 0, y |-> 0, w |-> 0, h |-> 0, x2 |-> 0, y2 |-> 0, texture |-> 0]
ZeroCommand == [type |-> "ZERO", color |-> ZeroColor, data |-> ZeroData]

\* what realloc may return for the storage of c: NULL, the same block grown
\* in place, or a new block (the old one is then freed)
ReallocResults(c) == {NULL, c.buf, c.buf + 1}

\* mutant of the realloc in bm__ensure_capacity: a new block without the copy
M_Realloc_no_copy(c, new_buf, new_cap) ==
    [c EXCEPT !.commands = <<>>,
              !.fresh = Indeterminate,
              !.buf = new_buf,
              !.command_capacity = new_cap]

\* the storage of c after a successful realloc to new_cap slots at new_buf:
\* the old slots keep their content, the added ones are indeterminate
Realloc(c, new_buf, new_cap) ==
    [c EXCEPT !.commands = [k \in 1..c.command_capacity |-> Slot(c, k - 1)],
              !.fresh = Indeterminate,
              !.buf = new_buf,
              !.command_capacity = new_cap]

\* mutant of bm__ensure_capacity: the result of realloc is assigned to
\* ctx->commands before it is tested
M_ensure_capacity_assigns_first(c, needed_extra, new_buf) ==
    LET required == c.command_count + needed_extra
        cap2 == IF c.command_capacity # 0 THEN c.command_capacity * 2
                ELSE DYN_FIRST_CAPACITY
        new_cap == IF cap2 < required THEN required ELSE cap2
    IN  IF required <= c.command_capacity THEN [ok |-> TRUE, ctx |-> c]
        ELSE IF new_buf = NULL THEN [ok |-> FALSE, ctx |-> [c EXCEPT !.buf = NULL]]
        ELSE [ok |-> TRUE, ctx |-> Realloc(c, new_buf, new_cap)]

\* mutant of bm__ensure_capacity: the storage grows to the required size only
M_ensure_capacity_grows_by_one(c, needed_extra, new_buf) ==
    LET required == c.command_count + needed_extra
    IN  IF required <= c.command_capacity THEN [ok |-> TRUE, ctx |-> c]
        ELSE IF new_buf = NULL THEN [ok |-> FALSE, ctx |-> c]
        ELSE [ok |-> TRUE, ctx |-> Realloc(c, new_buf, required)]

\* new_buf is what realloc returns if it is called
D_bm__ensure_capacity(c, needed_extra, new_buf) ==
    LET required == c.command_count + needed_extra
        cap2 == IF c.command_capacity # 0 THEN c.command_capacity * 2
                ELSE DYN_FIRST_CAPACITY
        new_cap == IF cap2 < required THEN required ELSE cap2
    IN  IF required <= c.command_capacity THEN [ok |-> TRUE, ctx |-> c]
        ELSE IF new_buf = NULL THEN [ok |-> FALSE, ctx |-> c]
        ELSE [ok |-> TRUE, ctx |-> Realloc(c, new_buf, new_cap)]

D_bm__push_command(c, new_buf) ==
    LET e == D_bm__ensure_capacity(c, 1, new_buf)
    IN  IF ~e.ok
        THEN [cmd |-> NoCmd, ctx |-> e.ctx]
        ELSE [cmd |-> e.ctx.command_count,
              ctx |-> Store([e.ctx EXCEPT !.command_count = @ + 1],
                            e.ctx.command_count, ZeroCommand)]

D_NewContext(command_capacity, addr) ==
    [live |-> TRUE,
     logical_w |-> DEFAULT_LOGICAL_W,
     logical_h |-> DEFAULT_LOGICAL_H,
     clear_color |-> bm_color_rgba(0, 0, 0, 10),
     current_color |-> bm_color_rgba(10, 10, 10, 10),
     buf |-> addr,
     fresh |-> ZeroCommand,
     commands |-> <<>>,
     command_count |-> 0,
     command_capacity |-> command_capacity,
     overflowed |-> FALSE]

D_bm_create(h, command_capacity) ==
    /\ impl = "dynamic"
    /\ ~ctx[h].live
    /\ \/ LET cap == IF command_capacity <= 0 THEN DYN_DEFAULT_CAPACITY
                     ELSE command_capacity
          IN  ctx' = [ctx EXCEPT ![h] = D_NewContext(cap, 1)]
       \/ ctx' = ctx       \* calloc failed: NULL is returned
    /\ UNCHANGED <<impl, sdl, spilled, g_bm_ctx, trace, begun, oob>>

D_bm_set_logical_size(width, height) ==
    /\ impl = "dynamic"
    /\ IF g_bm_ctx = NULL THEN ctx' = ctx
       ELSE ctx' = [ctx EXCEPT ![g_bm_ctx].logical_w = width,
                               ![g_bm_ctx].logical_h = height]
    /\ UNCHANGED <<impl, sdl, spilled, g_bm_ctx, trace, begun, oob>>

D_bm_set_clear_color(color) ==
    /\ impl = "dynamic"
    /\ IF g_bm_ctx = NULL THEN ctx' = ctx
       ELSE ctx' = [ctx EXCEPT ![g_bm_ctx].clear_color = color]
    /\ UNCHANGED <<impl, sdl, spilled, g_bm_ctx, trace, begun, oob>>

D_bm_set_draw_color(color) ==
    /\ impl = "dynamic"
    /\ IF g_bm_ctx = NULL THEN ctx' = ctx
       ELSE ctx' = [ctx EXCEPT ![g_bm_ctx].current_color = color]
    /\ UNCHANGED <<impl, sdl, spilled, g_bm_ctx, trace, begun, oob>>

D_bm_begin_frame ==
    /\ impl = "dynamic"
    /\ IF g_bm_ctx = NULL
       THEN UNCHANGED <<ctx, trace, begun, spilled>>
       ELSE /\ ctx' = [ctx EXCEPT ![g_bm_ctx] = Reset([@ EXCEPT !.command_count = 0])]
            /\ NoteBeginFrame
    /\ UNCHANGED <<impl, sdl, g_bm_ctx, oob>>

\* the struct d after the assignments d.f = fields.f
Assign(d, fields) ==
    [f \in DOMAIN d |-> IF f \in DOMAIN fields THEN fields[f] ELSE d[f]]

\* an emitter of the dynamic implementation: the zeroed slot pushed gets type,
\* the current draw colour and the fields the emitter sets
D_Emit(type, args, fields, new_buf) ==
    LET c == ctx[g_bm_ctx]
        p == D_bm__push_command(c, new_buf)
    IN  /\ ctx' = [ctx EXCEPT ![g_bm_ctx] =
              IF p.cmd = NoCmd THEN p.ctx
              ELSE Store(p.ctx, p.cmd,
                         [Slot(p.ctx, p.cmd) EXCEPT !.type = type,
                                                    !.color = p.ctx.current_color,
                                                    !.data = Assign(@, fields)])]
        /\ NoteStore(p.ctx, p)
        /\ NoteCall(type, args, Full(c) /\ new_buf = NULL)
        /\ UNCHANGED <<begun, spilled>>

\* the fields of the command each emitter assigns
D_rect_fields(r) == [x |-> r.x, y |-> r.y, w |-> r.w, h |-> r.h]
D_line_fields(l) == [x |-> l.x0, y |-> l.y0, x2 |-> l.x1, y2 |-> l.y1]
D_sprite_fields(s) == [texture |-> s.texture, x |-> s.x, y |-> s.y, w |-> s.w, h |-> s.h]

D_bm_rect_fill(r) ==
    /\ impl = "dynamic"
    /\ IF g_bm_ctx = NULL THEN UNCHANGED <<ctx, trace, begun, oob, spilled>>
       ELSE \E new_buf \in ReallocResults(ctx[g_bm_ctx]) :
                D_Emit("RECT_FILL", r, D_rect_fields(r), new_buf)
    /\ UNCHANGED <<impl, sdl, g_bm_ctx>>

D_bm_rect_outline(r) ==
    /\ impl = "dynamic"
    /\ IF g_bm_ctx = NULL THEN UNCHANGED <<ctx, trace, begun, oob, spilled>>
       ELSE \E new_buf \in ReallocResults(ctx[g_bm_ctx]) :
                D_Emit("RECT_OUTLINE", r, D_rect_fields(r), new_buf)
    /\ UNCHANGED <<impl, sdl, g_bm_ctx>>

D_bm_line(l) ==
    /\ impl = "dynamic"
    /\ IF g_bm_ctx = NULL THEN UNCHANGED <<ctx, trace, begun, oob, spilled>>
       ELSE \E new_buf \in ReallocResults(ctx[g_bm_ctx]) :
                D_Emit("LINE", l, D_line_fields(l), new_buf)
    /\ UNCHANGED <<impl, sdl, g_bm_ctx>>

D_bm_sprite(s) ==
    /\ impl = "dynamic"
    /\ IF g_bm_ctx = NULL THEN UNCHANGED <<ctx, trace, begun, oob, spilled>>
       ELSE \E new_buf \in ReallocResults(ctx[g_bm_ctx]) :
                D_Emit("SPRITE", s, D_sprite_fields(s), new_buf)
    /\ UNCHANGED <<impl, sdl, g_bm_ctx>>

----------------------------------------------------------------------------
(* The recorder as a state machine: a caller makes any API call at any time *)

Init ==
    /\ impl \in Impls
    /\ ctx = [h \in Handles |-> NoContext]
    /\ g_bm_ctx = NULL
    /\ trace = [h \in Handles |-> <<>>]
    /\ begun = [h \in Handles |-> FALSE]
    /\ oob = FALSE
    /\ sdl = <<>>
    /\ spilled = [h \in DOMAIN ctx |-> FALSE]

Next ==
    \/ \E h \in Handles, n \in Hints : F_bm_create(h, n)
    \/ \E h \in Handles, n \in Hints : D_bm_create(h, n)
    \/ \E h \in Handles \cup {NULL} : bm_destroy(h)
    \/ \E h \in Handles \cup {NULL} : bm_make_current(h)
    \/ \E s \in LogicalSizes : F_bm_set_logical_size(s[1], s[2])
    \/ \E s \in LogicalSizes : D_bm_set_logical_size(s[1], s[2])
    \/ \E c \in Colors : F_bm_set_clear_color(c)
    \/ \E c \in Colors : D_bm_set_clear_color(c)
    \/ \E c \in Colors : F_bm_set_draw_color(c)
    \/ \E c \in Colors : D_bm_set_draw_color(c)
    \/ F_bm_begin_frame
    \/ D_bm_begin_frame
    \/ bm_end_frame
    \/ CallAllowed(MaxCalls) /\ \E r \in Rects : F_bm_rect_fill(r)
    \/ CallAllowed(MaxCalls) /\ \E r \in Rects : D_bm_rect_fill(r)
    \/ CallAllowed(MaxCalls) /\ \E r \in Rects : F_bm_rect_outline(r)
    \/ CallAllowed(MaxCalls) /\ \E r \in Rects : D_bm_rect_outline(r)
    \/ CallAllowed(MaxCalls) /\ \E l \in Lines : F_bm_line(l)
    \/ CallAllowed(MaxCalls) /\ \E l \in Lines : D_bm_line(l)
    \/ CallAllowed(MaxCalls) /\ \E s \in Sprites : F_bm_sprite(s)
    \/ CallAllowed(MaxCalls) /\ \E s \in DSprites : D_bm_sprite(s)
    \/ \E h \in Handles \cup {NULL} : bm_get_commands(h)
    \/ \E h \in Handles \cup {NULL} : bm_get_command_capacity(h)
    \/ \E h \in Handles \cup {NULL} : bm_get_command_count(h)
    \/ \E h \in Handles \cup {NULL} : bm_has_overflowed(h)

Spec == Init /\ [][Next]_vars

----------------------------------------------------------------------------
(* Two recorders side by side: the same calls, on two handles, with fewer  *)
(* argument values.                                                        *)

MultiHandles == {1, 2}
MultiHints == {0, 2}
MultiSizes == {<<160, 90>>}
MultiClearColors == {White}
MultiDrawColors == {Black}

InitMulti ==
    /\ impl \in Impls
    /\ ctx = [h \in MultiHandles |-> NoContext]
    /\ g_bm_ctx = NULL
    /\ trace = [h \in MultiHandles |-> <<>>]
    /\ begun = [h \in MultiHandles |-> FALSE]
    /\ oob = FALSE
    /\ sdl = <<>>
    /\ spilled = [h \in DOMAIN ctx |-> FALSE]

NextMulti ==
    \/ \E h \in MultiHandles, n \in MultiHints : F_bm_create(h, n)
    \/ \E h \in MultiHandles, n \in MultiHints : D_bm_create(h, n)
    \/ \E h \in MultiHandles \cup {NULL} : bm_destroy(h)
    \/ \E h \in MultiHandles \cup {NULL} : bm_make_current(h)
    \/ \E s \in MultiSizes : F_bm_set_logical_size(s[1], s[2])
    \/ \E s \in MultiSizes : D_bm_set_logical_size(s[1], s[2])
    \/ \E c \in MultiClearColors : F_bm_set_clear_color(c)
    \/ \E c \in MultiClearColors : D_bm_set_clear_color(c)
    \/ \E c \in MultiDrawColors : F_bm_set_draw_color(c)
    \/ \E c \in MultiDrawColors : D_bm_set_draw_color(c)
    \/ F_bm_begin_frame
    \/ D_bm_begin_frame
    \/ CallAllowed(MaxCalls) /\ \E r \in Rects : F_bm_rect_fill(r)
    \/ CallAllowed(MaxCalls) /\ \E r \in Rects : D_bm_rect_fill(r)

SpecMulti == InitMulti /\ [][NextMulti]_vars

----------------------------------------------------------------------------
(* The SDL3 replayer (src/renderers/SDL3/bm_renderer_SDL3.c). It is written *)
(* against the API of the fixed-capacity implementation. The variable sdl  *)
(* lists the calls it made on the SDL renderer, in order, since the last   *)
(* SDL_RenderPresent; the first entry of a replay is the size              *)
(* SDL_GetRenderOutputSize reported, preceded by the recorder passed in.   *)

SDLCall(fn, args) == [fn |-> fn, args |-> args]

\* (Uint8) of a non-negative value
ToUint8(v) == v % 256

\* mutant of BM__ColorToSDL: the channels are scaled without being clamped
M_ColorToSDL_no_clamp(c) ==
    LET conv(x) == ToUint8((51 * x + 1) \div 2)
    IN  <<conv(c.r), conv(c.g), conv(c.b), conv(c.a)>>

\* channels are in tenths: x * 255.0f + 0.5f truncated is (51 * x + 1) \div 2
BM__ColorToSDL(c) ==
    LET clamp(x) == IF x < 0 THEN 0 ELSE IF x > 10 THEN 10 ELSE x
        conv(x) == ToUint8((51 * clamp(x) + 1) \div 2)
    IN  <<conv(c.r), conv(c.g), conv(c.b), conv(c.a)>>

\* a / b of two C ints, b > 0: the quotient truncated toward zero
CDiv(a, b) == IF a >= 0 THEN a \div b ELSE -((-a) \div b)

\* (int)(x + 0.5f) of a non-negative float with an integer value
RoundToInt(x) == (2 * x + 1) \div 2

\* what bm_get_logical_size leaves in (logical_w, logical_h), both 0.0f before
RenderLogicalSize ==
    IF g_bm_ctx = NULL THEN <<0, 0>>
    ELSE <<ctx[g_bm_ctx].logical_w, ctx[g_bm_ctx].logical_h>>

\* (lw, lh): the logical size in whole pixels, the output size where it is unset
RenderLogical(out_w, out_h) ==
    LET got == RenderLogicalSize
        l == IF got[1] <= 0 \/ got[2] <= 0 THEN <<out_w, out_h>> ELSE got
        lw == RoundToInt(l[1])
        lh == RoundToInt(l[2])
    IN  <<IF lw <= 0 THEN out_w ELSE lw, IF lh <= 0 THEN out_h ELSE lh>>

\* mutant of the scale: the larger of the two ratios
M_RenderScale_max(out_w, out_h, lw, lh) ==
    LET scale_x == CDiv(out_w, lw)
        scale_y == CDiv(out_h, lh)
        scale == IF scale_x > scale_y THEN scale_x ELSE scale_y
    IN  IF scale < 1 THEN 1 ELSE scale

RenderScale(out_w, out_h, lw, lh) ==
    LET scale_x == CDiv(out_w, lw)
        scale_y == CDiv(out_h, lh)
        scale == IF scale_x < scale_y THEN scale_x ELSE scale_y
    IN  IF scale < 1 THEN 1 ELSE scale

\* mutant of the viewport: flush with the right and bottom edges, not centred
M_RenderViewport_uncentred(out_w, out_h, lw, lh) ==
    LET scale == RenderScale(out_w, out_h, lw, lh)
        vp_w == lw * scale
        vp_h == lh * scale
    IN  <<out_w - vp_w, out_h - vp_h, vp_w, vp_h>>

\* the viewport (x, y, w, h)
RenderViewport(out_w, out_h, lw, lh) ==
    LET scale == RenderScale(out_w, out_h, lw, lh)
        vp_w == lw * scale
        vp_h == lh * scale
    IN  <<CDiv(out_w - vp_w, 2), CDiv(out_h - vp_h, 2), vp_w, vp_h>>

\* the switch of the replay loop: the draw calls made for one command
DrawCalls(cmd) ==
    IF cmd.type = "CLEAR" THEN <<SDLCall("SDL_RenderClear", <<>>)>>
    ELSE IF cmd.type = "RECT_FILL"
         THEN <<SDLCall("SDL_RenderFillRect",
                        <<cmd.data.x, cmd.data.y, cmd.data.w, cmd.data.h>>)>>
    ELSE IF cmd.type = "RECT_OUTLINE"
         THEN <<SDLCall("SDL_RenderRect",
                        <<cmd.data.x, cmd.data.y, cmd.data.w, cmd.data.h>>)>>
    ELSE IF cmd.type = "LINE"
         THEN <<SDLCall("SDL_RenderLine",
                        <<cmd.data.x0, cmd.data.y0, cmd.data.x1, cmd.data.y1>>)>>
    ELSE <<>>

\* mutant of the replay loop: it ends at the first sprite
M_Replay_stops_at_sprite(c) ==
    LET sprites == {i \in 1..c.command_count : Slot(c, i - 1).type = "SPRITE"}
        n == IF sprites = {} THEN c.command_count
             ELSE (CHOOSE i \in sprites : \A j \in sprites : i <= j) - 1
        done[i \in 0..n] ==
            IF i = 0 THEN <<>>
            ELSE LET cmd == Slot(c, i - 1)
                 IN  done[i - 1]
                     \o <<SDLCall("SDL_SetRenderDrawColor", BM__ColorToSDL(cmd.color))>>
                     \o DrawCalls(cmd)
    IN  done[n]

\* the replay loop over the commands of recorder c: done[i] lists the calls
\* made once the commands at the indices below i are replayed
Replay(c) ==
    LET done[i \in 0..c.command_count] ==
            IF i = 0 THEN <<>>
            ELSE LET cmd == Slot(c, i - 1)
                 IN  done[i - 1]
                     \o <<SDLCall("SDL_SetRenderDrawColor", BM__ColorToSDL(cmd.color))>>
                     \o DrawCalls(cmd)
    IN  done[c.command_count]

\* the calls made before the replay loop, for an output of out_w x out_h
RenderSetup(out_w, out_h) ==
    LET l == RenderLogical(out_w, out_h)
    IN  << SDLCall("SDL_GetRenderOutputSize", <<out_w, out_h>>),
           SDLCall("SDL_SetRenderViewport", <<>>),
           SDLCall("SDL_SetRenderScale", <<1, 1>>),
           SDLCall("SDL_SetRenderDrawColor", <<0, 0, 0, 255>>),
           SDLCall("SDL_RenderClear", <<>>),
           SDLCall("SDL_SetRenderViewport", RenderViewport(out_w, out_h, l[1], l[2])),
           SDLCall("SDL_SetRenderScale",
                   <<RenderScale(out_w, out_h, l[1], l[2]),
                     RenderScale(out_w, out_h, l[1], l[2])>>) >>

\* BM_SDL3_Render(state, h) with a renderer whose output is out_w x out_h
BM_SDL3_Render(h, out_w, out_h) ==
    /\ impl = "fixed"
    /\ IF h = NULL THEN TRUE ELSE ctx[h].live
    /\ IF h = NULL THEN UNCHANGED sdl
       ELSE \/ UNCHANGED sdl      \* SDL_GetRenderOutputSize failed
            \/ sdl' = sdl \o <<SDLCall("BM_SDL3_Render", <<h>>)>>
                          \o RenderSetup(out_w, out_h)
                          \o (IF ctx[h].command_count <= 0 THEN <<>> ELSE Replay(ctx[h]))
    /\ UNCHANGED <<impl, ctx, g_bm_ctx, trace, begun, oob, spilled>>

\* the frame is presented: the calls are carried out
SDL_RenderPresent ==
    /\ sdl' = <<>>
    /\ UNCHANGED <<impl, ctx, g_bm_ctx, trace, begun, oob, spilled>>

\* the arguments of the calls of the frame loop
RenderOutputs == {<<800, 600>>, <<801, 601>>, <<1920, 1080>>, <<320, 180>>, <<101, 100>>}
RenderSizes == {<<160, 90>>, <<64, 64>>}
RenderClearColors == {bm_color_rgba(-3, 15, -3, 15), bm_color_rgba(5, 3, 7, 1)}
RenderDrawColors == {bm_color_rgba(15, -3, 15, -3)}

InitRender ==
    /\ impl = "fixed"
    /\ ctx = [h \in Handles |-> NoContext]
    /\ g_bm_ctx = NULL
    /\ trace = [h \in Handles |-> <<>>]
    /\ begun = [h \in Handles |-> FALSE]
    /\ oob = FALSE
    /\ sdl = <<>>
    /\ spilled = [h \in DOMAIN ctx |-> FALSE]

\* a frame loop as in the example: the recorder is not called between
\* BM_SDL3_Render and SDL_RenderPresent
NextRender ==
    \/ sdl = <<>> /\ \E h \in Handles : F_bm_create(h, 0)
    \/ sdl = <<>> /\ \E h \in Handles \cup {NULL} : bm_make_current(h)
    \/ sdl = <<>> /\ \E s \in RenderSizes : F_bm_set_logical_size(s[1], s[2])
    \/ sdl = <<>> /\ \E c \in RenderClearColors : F_bm_set_clear_color(c)
    \/ sdl = <<>> /\ \E c \in RenderDrawColors : F_bm_set_draw_color(c)
    \/ sdl = <<>> /\ F_bm_begin_frame
    \/ sdl = <<>> /\ CallAllowed(MaxCalls) /\ \E r \in Rects : F_bm_rect_fill(r)
    \/ sdl = <<>> /\ CallAllowed(MaxCalls) /\ \E r \in Rects : F_bm_rect_outline(r)
    \/ sdl = <<>> /\ CallAllowed(MaxCalls) /\ \E l \in Lines : F_bm_line(l)
    \/ sdl = <<>> /\ CallAllowed(MaxCalls) /\ \E s \in Sprites : F_bm_sprite(s)
    \/ sdl = <<>> /\ \E h \in Handles \cup {NULL}, o \in RenderOutputs :
                        BM_SDL3_Render(h, o[1], o[2])
    \/ SDL_RenderPresent

SpecRender == InitRender /\ [][NextRender]_vars

----------------------------------------------------------------------------
(* The dynamic recorder under growth: frames long enough for the storage to *)
(* double twice (capacity 1 -> 2 -> 4), with few other inputs               *)

\* emitter calls made on one recorder within one frame
MaxGrowCalls == MaxCalls + 1
\* capacities passed to bm_create: positive, so that the storage is small
GrowHints == 1..MaxCap

InitGrow ==
    /\ impl = "dynamic"
    /\ ctx = [h \in Handles |-> NoContext]
    /\ g_bm_ctx = NULL
    /\ trace = [h \in Handles |-> <<>>]
    /\ begun = [h \in Handles |-> FALSE]
    /\ oob = FALSE
    /\ sdl = <<>>
    /\ spilled = [h \in DOMAIN ctx |-> FALSE]

NextGrow ==
    \/ \E h \in Handles, n \in GrowHints : D_bm_create(h, n)
    \/ \E h \in Handles \cup {NULL} : bm_destroy(h)
    \/ \E h \in Handles \cup {NULL} : bm_make_current(h)
    \/ D_bm_begin_frame
    \/ CallAllowed(MaxGrowCalls) /\ \E r \in Rects : D_bm_rect_fill(r)
    \/ CallAllowed(MaxGrowCalls) /\ \E l \in Lines : D_bm_line(l)

SpecGrow == InitGrow /\ [][NextGrow]_vars

----------------------------------------------------------------------------
(* What the properties speak about *)

Live(h) == ctx[h].live

\* the snapshot of recorder h
Recorded(h) == Snapshot(ctx[h])

\* 1 when the snapshot of h starts with the CLEAR of bm_begin_frame
Implicit(h) == IF impl = "fixed" /\ begun[h] THEN 1 ELSE 0

\* the snapshot of h without that CLEAR
Primitives(h) == SubSeq(Recorded(h), Implicit(h) + 1, Len(Recorded(h)))

\* the emitter calls of this frame the recorder had room for
Accepted(h) == SelectSeq(trace[h], LAMBDA e : ~e.refused)

SomeRefused(h) == \E k \in 1..Len(trace[h]) : trace[h][k].refused

\* the command an emitter call is to record
ExpectedData(e) ==
    IF impl = "fixed" THEN e.args
    ELSE IF e.type \in {"RECT_FILL", "RECT_OUTLINE"}
         THEN [x |-> e.args.x, y |-> e.args.y, w |-> e.args.w, h |-> e.args.h,
               x2 |-> 0, y2 |-> 0, texture |-> 0]
    ELSE IF e.type = "LINE"
         THEN [x |-> e.args.x0, y |-> e.args.y0, w |-> 0, h |-> 0,
               x2 |-> e.args.x1, y2 |-> e.args.y1, texture |-> 0]
    ELSE [x |-> e.args.x, y |-> e.args.y, w |-> e.args.w, h |-> e.args.h,
          x2 |-> 0, y2 |-> 0, texture |-> e.args.texture]

Expected(e) == [type |-> e.type, color |-> e.color, data |-> ExpectedData(e)]

Types(q) == [k \in 1..Len(q) |-> q[k].type]
ColorsOf(q) == [k \in 1..Len(q) |-> q[k].color]

----------------------------------------------------------------------------
(* C1: fixed variant, capacity boundary.                                   *)
(* As claimed: after bm_create(N), bm_make_current and bm_begin_frame, N   *)
(* emitter calls leave the overflow flag clear, and the (N+1)-th sets it   *)
(* and is absent from the snapshot.                                        *)
C1_AsClaimed ==
    \A h \in Handles : (impl = "fixed" /\ Live(h) /\ begun[h]) =>
        LET N == ctx[h].command_capacity
            K == Len(trace[h])
        IN  /\ K <= N => ~ctx[h].overflowed
            /\ K >= N + 1 =>
                  /\ ctx[h].overflowed
                  /\ Primitives(h) = [k \in 1..N |-> Expected(trace[h][k])]

(* C1 as the code has it: the CLEAR of bm_begin_frame takes one of the N   *)
(* slots, so N - 1 emitter calls leave the overflow flag clear and the     *)
(* N-th sets it; the snapshot then holds the CLEAR and the first N - 1     *)
(* commands, and no later one.                                             *)
C1_CapacityBoundary ==
    \A h \in Handles : (impl = "fixed" /\ Live(h) /\ begun[h]) =>
        LET N == ctx[h].command_capacity
            K == Len(trace[h])
        IN  /\ K <= N - 1 => ~ctx[h].overflowed
            /\ K >= N =>
                  /\ ctx[h].overflowed
                  /\ Len(Recorded(h)) = N
                  /\ Primitives(h) = [k \in 1..(N - 1) |-> Expected(trace[h][k])]

C1_Witness ==
    \E h \in Handles :
        /\ impl = "fixed" /\ Live(h) /\ begun[h]
        /\ ctx[h].command_capacity = 2
        /\ Len(trace[h]) = 2
        /\ ctx[h].overflowed
        /\ Len(Recorded(h)) = 2

(* C2: reset invariant. As long as no emitter was called since the last    *)
(* bm_begin_frame on a recorder, its command count is 1 in the fixed       *)
(* variant (the CLEAR) and 0 in the dynamic one, and the overflow flag of  *)
(* the fixed variant is clear, whatever the frame before held.             *)
C2_ResetInvariant ==
    \A h \in Handles : (Live(h) /\ begun[h] /\ trace[h] = <<>>) =>
        /\ ctx[h].command_count = (IF impl = "fixed" THEN 1 ELSE 0)
        /\ impl = "fixed" => ~ctx[h].overflowed

C2_Witness ==
    \E h \in Handles :
        /\ impl = "fixed" /\ Live(h) /\ begun[h] /\ trace[h] = <<>>
        /\ ctx[h].command_capacity = 1
        /\ ctx[h].command_count = 1
        /\ Recorded(h)[1].type = "CLEAR"

(* C3: order preservation. The snapshot lists the commands of the emitter  *)
(* calls the recorder had room for, in the order of the calls, after the   *)
(* CLEAR at index 0 in the fixed variant: the tags of the snapshot are the *)
(* tags of those calls, in order.                                          *)
C3_OrderPreserved ==
    \A h \in Handles : Live(h) =>
        /\ Types(Primitives(h)) = Types(Accepted(h))
        /\ Implicit(h) = 1 => Recorded(h)[1].type = "CLEAR"

C3_Witness ==
    \E h \in Handles :
        /\ Live(h) /\ impl = "fixed" /\ begun[h]
        /\ Types(Recorded(h)) = <<"CLEAR", "RECT_FILL", "LINE">>

(* C4: colour binding. Every recorded primitive carries the draw colour    *)
(* that was current when its emitter was called; no later setter changes   *)
(* the colour of a command in the buffer.                                  *)
C4_ColorBinding ==
    \A h \in Handles : Live(h) => ColorsOf(Primitives(h)) = ColorsOf(Accepted(h))

C4_Witness ==
    \E h \in Handles :
        /\ Live(h)
        /\ Len(Primitives(h)) = 2
        /\ Primitives(h)[1].color = White
        /\ Primitives(h)[2].color = Black
        /\ ctx[h].current_color = White
        /\ ctx[h].clear_color = White

(* C5: fixed variant. The command count stays within 0..capacity and no    *)
(* command is stored at an index at or above the capacity.                 *)
C5_CountWithinCapacity ==
    /\ impl = "fixed" => ~oob
    /\ \A h \in Handles : (impl = "fixed" /\ Live(h)) =>
          /\ 0 <= ctx[h].command_count
          /\ ctx[h].command_count <= ctx[h].command_capacity
          /\ Len(ctx[h].commands) <= ctx[h].command_capacity

C5_Witness ==
    \E h \in Handles :
        /\ impl = "fixed" /\ Live(h)
        /\ ctx[h].command_count = ctx[h].command_capacity
        /\ SomeRefused(h)

(* C6: fixed variant. The overflow flag is set exactly when an emitter     *)
(* call since the last bm_begin_frame (or since creation) found the        *)
(* recorder full; it stays set for the rest of the frame and               *)
(* bm_begin_frame clears it.                                               *)
C6_OverflowFlag ==
    \A h \in Handles : (impl = "fixed" /\ Live(h)) =>
        (ctx[h].overflowed <=> SomeRefused(h))

C6_Witness ==
    \E h \in Handles :
        /\ impl = "fixed" /\ Live(h) /\ begun[h]
        /\ Len(trace[h]) = 2
        /\ trace[h][1].refused
        /\ ctx[h].overflowed

(* C7: fixed variant. An emitter call on a full recorder changes nothing   *)
(* of the recorder (count, commands, colours, logical size) but the        *)
(* overflow flag, which it sets.                                           *)
C7_DropChangesOnlyFlag ==
    [][\A h \in Handles :
          (/\ impl = "fixed" /\ Live(h)
           /\ Len(trace'[h]) = Len(trace[h]) + 1
           /\ ctx[h].command_count = ctx[h].command_capacity)
          => ctx'[h] = [ctx[h] EXCEPT !.overflowed = TRUE]]_vars

C7_Witness ==
    \E h \in Handles :
        /\ impl = "fixed" /\ Live(h)
        /\ Len(trace[h]) = 2
        /\ ~trace[h][1].refused
        /\ trace[h][2].refused
        /\ ctx[h].overflowed
        /\ ctx[h].command_count = ctx[h].command_capacity

(* C8: dynamic variant. When no realloc has failed in the frame, the       *)
(* snapshot holds exactly the commands of the emitter calls of the frame,  *)
(* the i-th with the tag, colour and geometry of the i-th call, however    *)
(* often the storage grew.                                                 *)
C8_GrowthKeepsCommands ==
    \A h \in Handles : (impl = "dynamic" /\ Live(h) /\ ~SomeRefused(h)) =>
        Recorded(h) = [k \in 1..Len(trace[h]) |-> Expected(trace[h][k])]

C8_Witness ==
    \E h \in Handles :
        /\ impl = "dynamic" /\ Live(h) /\ ~SomeRefused(h)
        /\ Len(trace[h]) = 2
        /\ ctx[h].command_capacity = 2
        /\ ctx[h].buf # 1
        /\ Len(Recorded(h)) = 2

(* C9: view validity. A (commands, count) view of a recorder stays valid   *)
(* until the next bm_begin_frame on it: no other step moves the storage or *)
(* changes one of the first count commands.                                *)
C9_ViewValidUntilBeginFrame ==
    [][\A h \in Handles :
          (/\ Live(h) /\ ctx'[h].live
           /\ ~(begun'[h] /\ trace'[h] = <<>>))
          => /\ View(ctx'[h]).commands = View(ctx[h]).commands
             /\ \A k \in 1..View(ctx[h]).count : Slot(ctx'[h], k - 1) = Slot(ctx[h], k - 1)]_vars

(* C10: the logical size of every live recorder is strictly positive.      *)
C10_LogicalSizePositive ==
    \A h \in Handles : Live(h) => ctx[h].logical_w > 0 /\ ctx[h].logical_h > 0

(* C11: with no current recorder (g_bm_ctx is NULL before and after the    *)
(* call), a step that neither creates nor destroys a recorder, that is a   *)
(* call of bm_begin_frame, bm_end_frame, an emitter or a setter, changes   *)
(* no recorder: count, commands, colours, logical size and overflow flag   *)
(* of every recorder stay as they were.                                    *)
C11_NoCurrentNoOp ==
    [][(/\ g_bm_ctx = NULL /\ g_bm_ctx' = NULL
        /\ \A h \in DOMAIN ctx : ctx'[h].live = ctx[h].live)
       => ctx' = ctx]_vars

C11_Witness ==
    /\ g_bm_ctx = NULL
    /\ \E h \in DOMAIN ctx :
          /\ Live(h) /\ begun[h]
          /\ ctx[h].command_count = 2
          /\ ctx[h].clear_color = White

\* a call of one of the four emitters
EmitterCall ==
    \/ \E r \in Rects : F_bm_rect_fill(r) \/ D_bm_rect_fill(r)
    \/ \E r \in Rects : F_bm_rect_outline(r) \/ D_bm_rect_outline(r)
    \/ \E l \in Lines : F_bm_line(l) \/ D_bm_line(l)
    \/ \E s \in Sprites : F_bm_sprite(s)
    \/ \E s \in DSprites : D_bm_sprite(s)

(* C12: bm_destroy. The current pointer is NULL or refers to a live        *)
(* recorder in every reachable state; a step that destroys recorder h sets *)
(* the current pointer to NULL when h was current and leaves it as it was  *)
(* otherwise, and changes no other recorder; bm_destroy(NULL) changes      *)
(* nothing; an emitter call made while the current pointer is NULL (as it  *)
(* is after the current recorder was destroyed) changes no recorder.       *)
C12_DestroyClearsCurrent ==
    /\ [](IF g_bm_ctx = NULL THEN TRUE ELSE ctx[g_bm_ctx].live)
    /\ [][\A h \in DOMAIN ctx : (ctx[h].live /\ ~ctx'[h].live) =>
              /\ g_bm_ctx' = (IF g_bm_ctx = h THEN NULL ELSE g_bm_ctx)
              /\ \A k \in DOMAIN ctx \ {h} : ctx'[k] = ctx[k]]_vars
    /\ [][bm_destroy(NULL) => UNCHANGED vars]_vars
    /\ [][(g_bm_ctx = NULL /\ EmitterCall) => UNCHANGED ctx]_vars

\* recorder 1 is gone, recorder 2 recorded a frame while it was current, and no
\* recorder is current
C12_Witness ==
    /\ DOMAIN ctx = MultiHandles
    /\ g_bm_ctx = NULL
    /\ ~Live(1)
    /\ Live(2) /\ begun[2] /\ Len(trace[2]) = 2

\* a replay was made and not yet presented: the recorder it was given, the
\* output size it found, and the viewport and the scale it set
Rendered == sdl # <<>>
RenderedContext == sdl[1].args[1]
RenderedOutput == sdl[2].args
RenderedViewport == sdl[7].args
RenderedScale == sdl[8].args
\* the calls of the replay loop
RenderedReplay == SubSeq(sdl, 9, Len(sdl))

\* max(1, floor(min(pw/lw, ph/lh))), the minimum taken over the rationals
ClaimedScale(pw, ph, lw, lh) ==
    LET m == IF pw * lh <= ph * lw THEN pw \div lw ELSE ph \div lh
    IN  IF m < 1 THEN 1 ELSE m

\* q is d / 2 as an integer: exact, or the half dropped (rounded toward zero)
IsHalf(q, d) == \/ 2 * q = d
                \/ d > 0 /\ 2 * q = d - 1
                \/ d < 0 /\ 2 * q = d + 1

(* C13: replayer scale mapping. A replay on an output of pw x ph pixels,   *)
(* with a current recorder of logical size lw x lh, sets the scale         *)
(* max(1, floor(min(pw/lw, ph/lh))) on both axes and the viewport of size  *)
(* (lw*scale, lh*scale) at offset ((pw - lw*scale)/2, (ph - lh*scale)/2),  *)
(* the halves being integer quotients rounded toward zero; for 800x600 and *)
(* 320x180 that is scale 2, viewport 640x360, offset (80, 120).            *)
C13_ScaleMapping ==
    (Rendered /\ g_bm_ctx # NULL) =>
        LET pw == RenderedOutput[1]
            ph == RenderedOutput[2]
            lw == ctx[g_bm_ctx].logical_w
            lh == ctx[g_bm_ctx].logical_h
            scale == ClaimedScale(pw, ph, lw, lh)
            vp == RenderedViewport
        IN  /\ RenderedScale = <<scale, scale>>
            /\ vp[3] = lw * scale
            /\ vp[4] = lh * scale
            /\ IsHalf(vp[1], pw - vp[3])
            /\ IsHalf(vp[2], ph - vp[4])
            /\ (pw = 800 /\ ph = 600 /\ lw = 320 /\ lh = 180) =>
                  /\ scale = 2
                  /\ vp = <<80, 120, 640, 360>>

C13_Witness ==
    /\ Rendered /\ g_bm_ctx # NULL
    /\ RenderedOutput = <<800, 600>>
    /\ ctx[g_bm_ctx].logical_w = 320 /\ ctx[g_bm_ctx].logical_h = 180
    /\ RenderedScale = <<2, 2>>
    /\ RenderedViewport = <<80, 120, 640, 360>>

\* the calls of the last replay that set the draw colour, one per command
\* visited, and the draw calls proper
RenderedVisits == SelectSeq(RenderedReplay, LAMBDA e : e.fn = "SDL_SetRenderDrawColor")
RenderedDraws == SelectSeq(RenderedReplay, LAMBDA e : e.fn # "SDL_SetRenderDrawColor")

\* the command types the replayer draws, and the draw call each is to become
Supported == {"CLEAR", "RECT_FILL", "RECT_OUTLINE", "LINE"}
ExpectedDraw(cmd) ==
    IF cmd.type = "CLEAR" THEN SDLCall("SDL_RenderClear", <<>>)
    ELSE IF cmd.type = "RECT_FILL"
         THEN SDLCall("SDL_RenderFillRect", <<cmd.data.x, cmd.data.y, cmd.data.w, cmd.data.h>>)
    ELSE IF cmd.type = "RECT_OUTLINE"
         THEN SDLCall("SDL_RenderRect", <<cmd.data.x, cmd.data.y, cmd.data.w, cmd.data.h>>)
    ELSE SDLCall("SDL_RenderLine", <<cmd.data.x0, cmd.data.y0, cmd.data.x1, cmd.data.y1>>)

(* C14: replay order and skipping. A replay visits the commands of the     *)
(* snapshot in index order, each once (it sets the draw colour once per    *)
(* command, to the colour of that command); the draw calls it makes are    *)
(* those of the commands of a supported type, in snapshot order, each      *)
(* right after the colour of its command was set; a command of another     *)
(* type (a sprite) makes no draw call and the commands after it are still  *)
(* drawn.                                                                  *)
C14_ReplayOrder ==
    Rendered =>
        LET snap == Recorded(RenderedContext)
            drawn == SelectSeq(snap, LAMBDA cmd : cmd.type \in Supported)
        IN  /\ Len(RenderedVisits) = Len(snap)
            /\ \A k \in 1..Len(snap) :
                  RenderedVisits[k].args = BM__ColorToSDL(snap[k].color)
            /\ Len(RenderedDraws) = Len(drawn)
            /\ \A k \in 1..Len(drawn) : RenderedDraws[k] = ExpectedDraw(drawn[k])
            /\ \A k \in 1..Len(RenderedReplay) :
                  RenderedReplay[k].fn # "SDL_SetRenderDrawColor" =>
                      /\ k > 1
                      /\ RenderedReplay[k - 1].fn = "SDL_SetRenderDrawColor"

\* a sprite in the middle of the snapshot: the line after it is drawn
C14_Witness ==
    /\ Rendered
    /\ Types(Recorded(RenderedContext)) = <<"CLEAR", "SPRITE", "LINE">>
    /\ Len(RenderedVisits) = 3
    /\ Len(RenderedDraws) = 2
    /\ RenderedDraws[2].fn = "SDL_RenderLine"

\* out is the 8-bit value of channel x (in tenths) clamped to [0, 1]:
\* 255 above 1, 0 below 0, and x * 255 rounded to the nearest in between
ClampedTo8Bits(out, x) ==
    /\ out \in 0..255
    /\ x > 10 => out = 255
    /\ x < 0 => out = 0
    /\ (0 <= x /\ x <= 10) => (2 * out <= 51 * x + 1 /\ 51 * x + 1 < 2 * out + 2)

(* C15: clamp law. The colour a replay sets for a command has each of its  *)
(* four channels in 0..255 and decided by the same channel of the command  *)
(* alone: 255 when that is above 1, 0 when it is below 0, and its value    *)
(* scaled to 8 bits otherwise; no channel wraps around.                    *)
C15_ClampLaw ==
    Rendered =>
        LET snap == Recorded(RenderedContext)
        IN  \A k \in 1..Len(snap) :
                /\ k <= Len(RenderedVisits)
                /\ LET out == RenderedVisits[k].args
                       c == snap[k].color
                   IN  /\ ClampedTo8Bits(out[1], c.r)
                       /\ ClampedTo8Bits(out[2], c.g)
                       /\ ClampedTo8Bits(out[3], c.b)
                       /\ ClampedTo8Bits(out[4], c.a)

\* a replay of commands with channels above 1, below 0 and in between
C15_Witness ==
    /\ Rendered
    /\ LET snap == Recorded(RenderedContext)
       IN  /\ Len(snap) = 2
           /\ snap[1].color = bm_color_rgba(5, 3, 7, 1)
           /\ RenderedVisits[1].args = <<128, 77, 179, 26>>
           /\ snap[2].color = bm_color_rgba(15, -3, 15, -3)
           /\ RenderedVisits[2].args = <<255, 0, 255, 0>>

(* C16: bm_create. A call bm_create(n) that returns a recorder gives it    *)
(* the capacity n when n > 0 and the default otherwise (1024 in the fixed  *)
(* implementation, 64 in the dynamic one), count 0, the overflow flag      *)
(* clear and the logical size 320x180; it leaves the current pointer and   *)
(* every other recorder as they were.                                      *)
C16_CreateDefaults ==
    [][\A h \in DOMAIN ctx, n \in MultiHints :
          ((F_bm_create(h, n) \/ D_bm_create(h, n)) /\ ctx'[h].live) =>
              /\ ctx'[h].command_capacity =
                    (IF n > 0 THEN n ELSE IF impl = "fixed" THEN 1024 ELSE 64)
              /\ ctx'[h].command_count = 0
              /\ ~ctx'[h].overflowed
              /\ ctx'[h].logical_w = 320 /\ ctx'[h].logical_h = 180
              /\ g_bm_ctx' = g_bm_ctx
              /\ \A k \in DOMAIN ctx \ {h} : ctx'[k] = ctx[k]]_vars

\* recorder 2 as bm_create(0) leaves it, beside a current recorder 1 in use
C16_Witness ==
    /\ DOMAIN ctx = MultiHandles
    /\ impl = "dynamic"
    /\ g_bm_ctx = 1 /\ Live(1) /\ Len(trace[1]) = 1
    /\ Live(2) /\ ~begun[2] /\ trace[2] = <<>>
    /\ ctx[2].command_capacity = 64
    /\ ctx[2].command_count = 0

(* C17: fixed variant, overflow does not persist. In every frame begun     *)
(* after a frame that dropped appends, the recorder records again: after K *)
(* emitter calls in the frame its count is 1 + K (the CLEAR and one        *)
(* command per call) as long as that is within the capacity N, the         *)
(* commands are those of the calls in order, and the overflow flag is set  *)
(* only once K reaches N.                                                  *)
C17_OverflowNotPersistent ==
    \A h \in DOMAIN ctx : (impl = "fixed" /\ Live(h) /\ begun[h] /\ spilled[h]) =>
        LET N == ctx[h].command_capacity
            K == Len(trace[h])
            kept == IF K <= N - 1 THEN K ELSE N - 1
        IN  /\ ctx[h].command_count = 1 + kept
            /\ Primitives(h) = [k \in 1..kept |-> Expected(trace[h][k])]
            /\ ctx[h].overflowed <=> K >= N

\* a frame after an overflowed one, with a command recorded and room left
C17_Witness ==
    \E h \in DOMAIN ctx :
        /\ impl = "fixed" /\ Live(h) /\ begun[h] /\ spilled[h]
        /\ ctx[h].command_capacity = 2
        /\ Len(trace[h]) = 1
        /\ ctx[h].command_count = 2
        /\ ~ctx[h].overflowed

(* C18: fixed variant. bm_begin_frame on a recorder leaves at index 0 a    *)
(* CLEAR command with the clear colour the recorder had when it was        *)
(* called, and no later call of the frame changes the command at index 0:  *)
(* not bm_set_clear_color, and no other call but the next bm_begin_frame.  *)
C18_ClearCarriesClearColor ==
    /\ [][(F_bm_begin_frame /\ g_bm_ctx # NULL) =>
              /\ ctx'[g_bm_ctx].command_count = 1
              /\ Slot(ctx'[g_bm_ctx], 0).type = "CLEAR"
              /\ Slot(ctx'[g_bm_ctx], 0).color = ctx[g_bm_ctx].clear_color]_vars
    /\ [][\A h \in DOMAIN ctx :
              (/\ impl = "fixed" /\ Live(h) /\ begun[h] /\ ctx'[h].live
               /\ ~F_bm_begin_frame)
              => Slot(ctx'[h], 0) = Slot(ctx[h], 0)]_vars

\* the clear colour was changed after bm_begin_frame: the CLEAR keeps the old one
C18_Witness ==
    \E h \in DOMAIN ctx :
        /\ impl = "fixed" /\ Live(h) /\ begun[h]
        /\ Slot(ctx[h], 0).type = "CLEAR"
        /\ Slot(ctx[h], 0).color = Black
        /\ ctx[h].clear_color = White
        /\ Len(trace[h]) = 1

(* C19: bm_end_frame changes nothing: the current pointer and every        *)
(* recorder (count, commands, capacity, colours, logical size, overflow    *)
(* flag) are after the call what they were before it.                      *)
C19_EndFrameNoOp ==
    [][bm_end_frame => (g_bm_ctx' = g_bm_ctx /\ ctx' = ctx)]_vars

\* a frame with commands recorded, where bm_end_frame is called in the frame loop
C19_Witness ==
    \E h \in DOMAIN ctx :
        /\ g_bm_ctx = h /\ Live(h) /\ begun[h]
        /\ Len(trace[h]) = 2
        /\ ctx[h].command_count >= 2

(* C20: dynamic variant, realloc failure. An emitter call whose realloc    *)
(* fails leaves the recorder as it was: count, capacity, the storage       *)
(* pointer and every recorded command; and a recorder that refused a call  *)
(* can still take the next one (when its realloc succeeds), which then     *)
(* raises the count by one.                                                *)
C20_ReallocFailureKeepsRecorder ==
    /\ [][\A h \in DOMAIN ctx :
              (/\ impl = "dynamic" /\ Live(h)
               /\ Len(trace'[h]) = Len(trace[h]) + 1
               /\ trace'[h][Len(trace'[h])].refused)
              => ctx'[h] = ctx[h]]_vars
    /\ [](\A h \in DOMAIN ctx : (impl = "dynamic" /\ Live(h) /\ SomeRefused(h)) =>
              \E new_buf \in ReallocResults(ctx[h]) :
                  LET p == D_bm__push_command(ctx[h], new_buf)
                  IN  /\ p.cmd = ctx[h].command_count
                      /\ p.ctx.command_count = ctx[h].command_count + 1
                      /\ \A k \in 1..ctx[h].command_count :
                            Slot(p.ctx, k - 1) = Slot(ctx[h], k - 1))

\* the second call of the frame found the recorder full and realloc failed
C20_Witness ==
    \E h \in DOMAIN ctx :
        /\ impl = "dynamic" /\ Live(h)
        /\ Len(trace[h]) = 2
        /\ ~trace[h][1].refused /\ trace[h][2].refused
        /\ ctx[h].command_count = 1 /\ ctx[h].command_capacity = 1
        /\ ctx[h].buf = 1
        /\ Recorded(h) = <<Expected(trace[h][1])>>

(* C21: an emitter call the recorder has room for raises the command count *)
(* by exactly 1, writes the slot at the old count with the tag, the colour *)
(* and the geometry of the call, and leaves every command at a lower index *)
(* as it was.                                                              *)
C21_EmitterEffect ==
    [][\A h \in DOMAIN ctx :
          (/\ Live(h)
           /\ Len(trace'[h]) = Len(trace[h]) + 1
           /\ ~trace'[h][Len(trace'[h])].refused)
          => /\ ctx'[h].command_count = ctx[h].command_count + 1
             /\ Slot(ctx'[h], ctx[h].command_count) = Expected(trace'[h][Len(trace'[h])])
             /\ \A k \in 1..ctx[h].command_count :
                   Slot(ctx'[h], k - 1) = Slot(ctx[h], k - 1)]_vars

\* two calls recorded after the CLEAR, the second of another type and colour
C21_Witness ==
    \E h \in DOMAIN ctx :
        /\ impl = "fixed" /\ Live(h) /\ begun[h]
        /\ Len(trace[h]) = 2
        /\ ctx[h].command_count = 3
        /\ Types(Recorded(h)) = <<"CLEAR", "RECT_OUTLINE", "SPRITE">>
        /\ Recorded(h)[2].color = Black
        /\ Recorded(h)[3].color = White

(* C22: the dynamic recorder's storage. The capacity changes only in a step *)
(* that appends a command to a recorder whose count equals its capacity; it *)
(* then becomes the larger of twice the old capacity and count + 1 (64 if   *)
(* the capacity was 0); no step, bm_begin_frame included, lowers it or      *)
(* moves the storage otherwise; and the count never exceeds the capacity.   *)
C22_GrowthPolicy ==
    /\ [](\A h \in DOMAIN ctx :
            (impl = "dynamic" /\ Live(h))
            => /\ 0 <= ctx[h].command_count
               /\ ctx[h].command_count <= ctx[h].command_capacity)
    /\ [][\A h \in DOMAIN ctx :
            (impl = "dynamic" /\ ctx[h].live /\ ctx'[h].live)
            => LET cap == ctx[h].command_capacity
                   count == ctx[h].command_count
                   twice == IF cap = 0 THEN DYN_FIRST_CAPACITY ELSE 2 * cap
               IN  /\ ctx'[h].command_capacity >= cap
                   /\ ctx'[h].command_capacity # cap
                      => /\ count = cap
                         /\ ctx'[h].command_count = count + 1
                         /\ ctx'[h].command_capacity =
                               IF twice < count + 1 THEN count + 1 ELSE twice
                   /\ ctx'[h].buf # ctx[h].buf
                      => ctx'[h].command_capacity # cap]_vars

\* a recorder created with capacity 1 or 2 has grown to 4 slots, and
\* bm_begin_frame has kept them
C22_Witness ==
    \E h \in DOMAIN ctx :
        /\ impl = "dynamic" /\ Live(h) /\ begun[h]
        /\ ctx[h].command_capacity = 4
        /\ ctx[h].command_count = 1
        /\ Len(trace[h]) = 1

(* C23: fixed variant. Whenever the snapshot of a recorder is not empty,    *)
(* its command at index 0 is a CLEAR, whatever calls were made, emitter     *)
(* calls before the first bm_begin_frame included.                          *)
C23_ClearFirst ==
    \A h \in DOMAIN ctx :
        (impl = "fixed" /\ Live(h) /\ Len(Recorded(h)) > 0)
        => Recorded(h)[1].type = "CLEAR"

\* the same of the recorders bm_begin_frame was called on
C23_ClearFirstOnceBegun ==
    \A h \in DOMAIN ctx :
        (impl = "fixed" /\ Live(h) /\ begun[h] /\ Len(Recorded(h)) > 0)
        => Recorded(h)[1].type = "CLEAR"

(* C24: recorder isolation. A step that neither creates nor destroys        *)
(* recorder h changes its count, commands, colours, logical size or         *)
(* overflow flag only if h is the current recorder, the one last passed to  *)
(* bm_make_current, and stays it; and a step that changes the current       *)
(* pointer without creating or destroying a recorder, bm_make_current,      *)
(* changes no recorder.                                                     *)
C24_Isolation ==
    [][/\ \A h \in DOMAIN ctx :
             (ctx[h].live /\ ctx'[h].live /\ ctx'[h] # ctx[h])
             => (g_bm_ctx = h /\ g_bm_ctx' = h)
       /\ (/\ g_bm_ctx' # g_bm_ctx
           /\ \A h \in DOMAIN ctx : ctx'[h].live = ctx[h].live)
          => ctx' = ctx]_vars

\* two live recorders that differ: the draw colour was set and a frame begun
\* on one, a frame begun and a rectangle recorded on the other, now current
C24_Witness ==
    /\ impl = "fixed"
    /\ DOMAIN ctx = {1, 2}
    /\ Live(1) /\ Live(2)
    /\ g_bm_ctx = 2
    /\ begun[1] /\ begun[2]
    /\ ctx[1].current_color = Black
    /\ ctx[1].command_count = 1
    /\ ctx[2].current_color = bm_color_rgba(10, 10, 10, 10)
    /\ ctx[2].command_count = 2
    /\ ctx[2].clear_color = White
    /\ ctx[1].clear_color = bm_color_rgba(0, 0, 0, 10)

(* C25: the replayer maps the commands of the recorder it is passed with    *)
(* the logical size of that same recorder: the scale and the viewport set   *)
(* by a replay of ctx are those of the logical size of ctx, whether ctx is  *)
(* the current recorder or not.                                             *)
C25_OwnLogicalSize ==
    Rendered =>
        LET pw == RenderedOutput[1]
            ph == RenderedOutput[2]
            lw == ctx[RenderedContext].logical_w
            lh == ctx[RenderedContext].logical_h
            scale == ClaimedScale(pw, ph, lw, lh)
        IN  /\ RenderedScale = <<scale, scale>>
            /\ RenderedViewport[3] = lw * scale
            /\ RenderedViewport[4] = lh * scale

\* the same of the replays of the current recorder
C25_OwnLogicalSizeIfCurrent ==
    (Rendered /\ g_bm_ctx = RenderedContext) => C25_OwnLogicalSize

(* C26: viewport placement. The scale a replay sets is at least 1. With lw  *)
(* x lh the logical size it scaled (the viewport is lw*scale x lh*scale) on *)
(* an output of pw x ph: if pw >= lw and ph >= lh the viewport lies inside  *)
(* the output and the opposite margins differ by at most 1 pixel; if the    *)
(* output is smaller than the logical size in a dimension the scale is 1    *)
(* and the viewport reaches beyond the output in that dimension.            *)
C26_ViewportPlacement ==
    Rendered =>
        LET pw == RenderedOutput[1]
            ph == RenderedOutput[2]
            vp == RenderedViewport
            scale == RenderedScale[1]
            lw == vp[3] \div scale
            lh == vp[4] \div scale
        IN  /\ scale >= 1
            /\ RenderedScale[2] = scale
            /\ vp[3] = lw * scale
            /\ vp[4] = lh * scale
            /\ (pw >= lw /\ ph >= lh)
               => /\ 0 <= vp[1] /\ vp[1] + vp[3] <= pw
                  /\ 0 <= vp[2] /\ vp[2] + vp[4] <= ph
                  /\ (pw - vp[3] - vp[1]) - vp[1] \in {-1, 0, 1}
                  /\ (ph - vp[4] - vp[2]) - vp[2] \in {-1, 0, 1}
            /\ (pw < lw \/ ph < lh)
               => /\ scale = 1
                  /\ pw < lw => (vp[1] <= 0 /\ vp[1] + vp[3] > pw)
                  /\ ph < lh => (vp[2] <= 0 /\ vp[2] + vp[4] > ph)

\* 160x90 on 801x601: scale 5, margins 0 and 1 across, 75 and 76 down
C26_Witness ==
    /\ Rendered
    /\ RenderedOutput = <<801, 601>>
    /\ RenderedScale = <<5, 5>>
    /\ RenderedViewport = <<0, 75, 800, 450>>

\* 160x90 on 101x100: the output is narrower than the canvas
C26_WitnessClipped ==
    /\ Rendered
    /\ RenderedOutput = <<101, 100>>
    /\ RenderedScale = <<1, 1>>
    /\ RenderedViewport = <<-29, 5, 160, 90>>

(* C27: the accessors. A call of bm_get_commands, bm_get_command_count,     *)
(* bm_get_command_capacity or bm_has_overflowed changes no recorder and not *)
(* the current pointer; the count bm_get_commands reports is the one        *)
(* bm_get_command_count returns for the same recorder; and with a NULL      *)
(* recorder they return 0 and false and bm_get_commands leaves the caller's *)
(* variables as they were.                                                  *)
C27_PureReads ==
    /\ [](\A h \in DOMAIN ctx, out \in CallerOuts :
            Live(h) =>
               /\ bm_get_commands_out(h, out).commands = ctx[h].buf
               /\ bm_get_commands_out(h, out).count = ctx[h].command_count
               /\ impl = "fixed" =>
                     bm_get_commands_out(h, out).count = bm_get_command_count_ret(h))
    /\ [](\A out \in CallerOuts :
            /\ bm_get_commands_out(NULL, out) = out
            /\ bm_get_command_count_ret(NULL) = 0
            /\ bm_get_command_capacity_ret(NULL) = 0
            /\ bm_has_overflowed_ret(NULL) = FALSE)
    /\ [][(\E h \in DOMAIN ctx \cup {NULL} :
              \/ bm_get_commands(h)
              \/ bm_get_command_count(h)
              \/ bm_get_command_capacity(h)
              \/ bm_has_overflowed(h))
          => UNCHANGED <<ctx, g_bm_ctx>>]_vars

\* a full recorder that overflowed and is no longer current: the accessors
\* report its two commands, its capacity and the flag
C27_Witness ==
    \E h \in DOMAIN ctx :
        /\ impl = "fixed" /\ Live(h) /\ g_bm_ctx = NULL
        /\ bm_get_command_count_ret(h) = 2
        /\ bm_get_command_capacity_ret(h) = 2
        /\ bm_has_overflowed_ret(h)
        /\ \A out \in CallerOuts :
              /\ bm_get_commands_out(h, out) = [commands |-> ctx[h].buf, count |-> 2]
              /\ bm_get_commands_out(h, out) # out

====
